---- MODULE Spec2Model ----
(***************************************************************************)
(* A model of assistant.py: the validated fields (Phone, Birthday), the    *)
(* Record and AddressBook operations, the upcoming-birthdays query and the *)
(* add / birthdays command handlers behind input_error.                    *)
(*                                                                         *)
(* A Python str is a sequence of characters.  An ASCII character is the    *)
(* one-character string; a non-ASCII character is the string naming its    *)
(* code point ("U+0663").  None is the empty sequence where a Birthday or  *)
(* a Record may be absent: no Birthday holds "" (strptime rejects it).     *)
(***************************************************************************)
EXTENDS Integers, Sequences, FiniteSets, TLC

VARIABLES book, last, added

vars == <<book, last, added>>

(***************************************************************************)
(* Characters                                                              *)
(***************************************************************************)
AsciiDigits == {"0", "1", "2", "3", "4", "5", "6", "7", "8", "9"}

\* ARABIC-INDIC DIGIT THREE: category Nd (str.isdigit, str.isdecimal, \d).
ArabicIndicThree == "U+0663"

\* SUPERSCRIPT TWO: category No, Numeric_Type=Digit (str.isdigit only).
SuperscriptTwo == "U+00B2"

\* The characters \d of a str pattern matches, and int() reads.
DecimalChars == AsciiDigits \cup {ArabicIndicThree}

\* The characters c with c.isdigit().
DigitChars == DecimalChars \cup {SuperscriptTwo}

DigitValue(c) ==
    CASE c = "0" -> 0 [] c = "1" -> 1 [] c = "2" -> 2 [] c = "3" -> 3
      [] c = "4" -> 4 [] c = "5" -> 5 [] c = "6" -> 6 [] c = "7" -> 7
      [] c = "8" -> 8 [] c = "9" -> 9 [] c = ArabicIndicThree -> 3

DigitChar(n) ==
    CASE n = 0 -> "0" [] n = 1 -> "1" [] n = 2 -> "2" [] n = 3 -> "3"
      [] n = 4 -> "4" [] n = 5 -> "5" [] n = 6 -> "6" [] n = 7 -> "7"
      [] n = 8 -> "8" [] n = 9 -> "9"

\* str.isdigit(): at least one character, and every character a digit.
isdigit(s) == Len(s) > 0 /\ \A i \in 1..Len(s) : s[i] \in DigitChars

\* int(s) of a string of decimal characters.
RECURSIVE int(_)
int(s) ==
    IF Len(s) = 0 THEN 0
    ELSE 10 * int(SubSeq(s, 1, Len(s) - 1)) + DigitValue(s[Len(s)])

(***************************************************************************)
(* Results of a call: a value, or the exception raised.                    *)
(***************************************************************************)
Ok(v) == [status |-> "ok", err |-> "", value |-> v]

Raise(exc, msg) == [status |-> exc, err |-> msg, value |-> <<>>]

(***************************************************************************)
(* datetime.date                                                           *)
(***************************************************************************)
Date(y, m, d) == [year |-> y, month |-> m, day |-> d]

NoDate == Date(0, 0, 0)

IsLeap(y) == y % 4 = 0 /\ (y % 100 # 0 \/ y % 400 = 0)

DaysInMonth(y, m) ==
    IF m = 2 THEN (IF IsLeap(y) THEN 29 ELSE 28)
    ELSE IF m \in {4, 6, 9, 11} THEN 30 ELSE 31

DaysBeforeYear(y) ==
    LET z == y - 1 IN z * 365 + (z \div 4) - (z \div 100) + (z \div 400)

RECURSIVE DaysBeforeMonth(_, _)
DaysBeforeMonth(y, m) ==
    IF m = 1 THEN 0 ELSE DaysBeforeMonth(y, m - 1) + DaysInMonth(y, m - 1)

toordinal(d) == DaysBeforeYear(d.year) + DaysBeforeMonth(d.year, d.month) + d.day

\* date.fromordinal, as datetime._ord2ymd computes it: the 400-year, 100-year
\* and 4-year cycles and the years before day ord, then the month, whose
\* estimate (n + 50) >> 5 is at most one too high.
OrdDay(year, n, month) == Date(year, month, n - DaysBeforeMonth(year, month) + 1)

OrdMonth(year, n, est) ==
    OrdDay(year, n, IF DaysBeforeMonth(year, est) > n THEN est - 1 ELSE est)

OrdYear(year, n1, n100, n) ==
    IF n1 = 4 \/ n100 = 4 THEN Date(year - 1, 12, 31)
    ELSE OrdMonth(year, n, (n + 50) \div 32)

Ord4(n400, n100, n4, r) ==
    OrdYear(n400 * 400 + 1 + n100 * 100 + n4 * 4 + (r \div 365), r \div 365, n100, r % 365)

Ord100(n400, n100, r) == Ord4(n400, n100, r \div 1461, r % 1461)

Ord400(n400, r) == Ord100(n400, r \div 36524, r % 36524)

fromordinal(ord) == Ord400((ord - 1) \div 146097, (ord - 1) % 146097)

\* date.weekday(): Monday is 0, Sunday is 6.
weekday(d) == (toordinal(d) + 6) % 7

\* date + timedelta(days=n)
plus_days(d, n) == fromordinal(toordinal(d) + n)

\* date.replace(year=y): ValueError when the day does not exist in year y.
replace_year(d, y) ==
    IF d.day <= DaysInMonth(y, d.month)
    THEN Ok(Date(y, d.month, d.day))
    ELSE Raise("ValueError", "DayOutOfRange")

\* The decimal digits of n >= 0, without padding.
RECURSIVE Decimal(_)
Decimal(n) ==
    IF n < 10 THEN <<DigitChar(n)>> ELSE Append(Decimal(n \div 10), DigitChar(n % 10))

\* %d and %m: two digits, zero-padded.
Pad2(n) == <<DigitChar(n \div 10), DigitChar(n % 10)>>

\* date.strftime("%d.%m.%Y"); the C library's %Y does not pad the year.
strftime(d) == Pad2(d.day) \o <<".">> \o Pad2(d.month) \o <<".">> \o Decimal(d.year)

(***************************************************************************)
(* datetime.strptime(value, "%d.%m.%Y"): the format's regular expression   *)
(*   (3[0-1]|[1-2]\d|0[1-9]|[1-9]| [1-9])\.(1[0-2]|0[1-9]|[1-9])\.(\d\d\d\d)*)
(* matched at the start of the string, which it must consume whole.        *)
(***************************************************************************)
At(s, i) == IF i >= 1 /\ i <= Len(s) THEN s[i] ELSE "<end>"

OneToNine == AsciiDigits \ {"0"}

\* \d\d\d\d at position i.
YearAt(s, i) == \A k \in 0..3 : At(s, i + k) \in DecimalChars

\* \.(\d\d\d\d) at position i.
AfterMonth(s, i) == At(s, i) = "." /\ YearAt(s, i + 1)

\* The length of the %m group at position i, its alternatives tried in order
\* (1[0-2], 0[1-9], then [1-9]) until the rest matches; 0 when none does.
MonthLen(s, i) ==
    IF /\ \/ At(s, i) = "1" /\ At(s, i + 1) \in {"0", "1", "2"}
          \/ At(s, i) = "0" /\ At(s, i + 1) \in OneToNine
       /\ AfterMonth(s, i + 2)
    THEN 2
    ELSE IF At(s, i) \in OneToNine /\ AfterMonth(s, i + 1) THEN 1 ELSE 0

\* \.(%m)\.(%Y) at position i.
AfterDay(s, i) == At(s, i) = "." /\ MonthLen(s, i + 1) > 0

\* The length of the %d group at the start, its alternatives tried until the
\* rest matches: 3[0-1], [1-2]\d, 0[1-9], then [1-9], then " "[1-9] (which
\* starts with a character [1-9] does not match, so its place in the order
\* decides nothing); 0 when the string does not match.
DayLen(s) ==
    IF /\ \/ At(s, 1) = "3" /\ At(s, 2) \in {"0", "1"}
          \/ At(s, 1) \in {"1", "2"} /\ At(s, 2) \in DecimalChars
          \/ At(s, 1) = "0" /\ At(s, 2) \in OneToNine
          \/ At(s, 1) = " " /\ At(s, 2) \in OneToNine
       /\ AfterDay(s, 3)
    THEN 2
    ELSE IF At(s, 1) \in OneToNine /\ AfterDay(s, 2) THEN 1 ELSE 0

Strip(s) == IF Len(s) > 0 /\ s[1] = " " THEN Tail(s) ELSE s

\* The date of the matched fields: the whole string must have been matched,
\* and datetime accepts years from 1 and the days of the month.
Checked(len, stop, day, month, year) ==
    IF len # stop THEN Raise("ValueError", "UnconvertedData")
    ELSE IF year < 1 THEN Raise("ValueError", "YearOutOfRange")
    ELSE IF day > DaysInMonth(year, month) THEN Raise("ValueError", "DayOutOfRange")
    ELSE Ok(Date(year, month, day))

Fields(s, dl, ml) ==
    Checked(Len(s), dl + ml + 6,
            int(Strip(SubSeq(s, 1, dl))),
            int(SubSeq(s, dl + 2, dl + 1 + ml)),
            int(SubSeq(s, dl + ml + 3, dl + ml + 6)))

Matched(s, dl) ==
    IF dl = 0 THEN Raise("ValueError", "NoMatch")
    ELSE Fields(s, dl, MonthLen(s, dl + 2))

strptime(s) == Matched(s, DayLen(s))

(***************************************************************************)
(* Fields                                                                  *)
(***************************************************************************)
\* Phone.__init__: the value, kept as given, or ValueError.
Phone(value) ==
    IF ~isdigit(value) \/ Len(value) # 10
    THEN Raise("ValueError", "InvalidPhone")
    ELSE Ok(value)

\* Birthday.__init__: the value, kept as given, or ValueError.
Birthday(value) ==
    IF strptime(value).status # "ok"
    THEN Raise("ValueError", "InvalidDate")
    ELSE Ok(value)

(***************************************************************************)
(* Record: a result carries the record as the call leaves it.              *)
(***************************************************************************)
None == <<>>

Record(name) == [name |-> name, phones |-> <<>>, birthday |-> None]

Left(r, rec) == [status |-> r.status, err |-> r.err, rec |-> rec]

\* The first index of phones holding value, or 0.
FirstIndex(phones, value) ==
    IF \E i \in 1..Len(phones) : phones[i] = value
    THEN CHOOSE i \in 1..Len(phones) :
            /\ phones[i] = value
            /\ \A j \in 1..(i - 1) : phones[j] # value
    ELSE 0

\* self.phones.append(p), p being what Phone(phone) gave.
Appended(rec, p) ==
    IF p.status # "ok" THEN Left(p, rec)
    ELSE Left(p, [rec EXCEPT !.phones = Append(@, p.value)])

add_phone(rec, phone) == Appended(rec, Phone(phone))

\* self.phones.remove(p), p being the phone at index i.
RemovedAt(rec, i) ==
    IF i = 0 THEN Left(Raise("ValueError", "NotFound"), rec)
    ELSE Left(Ok(None),
              [rec EXCEPT !.phones = SubSeq(@, 1, i - 1) \o SubSeq(@, i + 1, Len(@))])

remove_phone(rec, phone) == RemovedAt(rec, FirstIndex(rec.phones, phone))

\* self.phones[i] = p, p being what Phone(new_phone) gave.
Replaced(rec, i, p) ==
    IF p.status # "ok" THEN Left(p, rec)
    ELSE Left(p, [rec EXCEPT !.phones[i] = p.value])

\* The loop reached index i (0: it ended without a match).
EditedAt(rec, i, new_phone) ==
    IF i = 0 THEN Left(Raise("ValueError", "NotFound"), rec)
    ELSE Replaced(rec, i, Phone(new_phone))

\* A variant of edit_phone that removes the old phone and then adds the new
\* one: a new phone that fails validation leaves the old one removed.
edit_phone_remove_then_add(rec, old_phone, new_phone) ==
    IF FirstIndex(rec.phones, old_phone) = 0
    THEN Left(Raise("ValueError", "NotFound"), rec)
    ELSE Appended(RemovedAt(rec, FirstIndex(rec.phones, old_phone)).rec, Phone(new_phone))

\* A variant of edit_phone whose loop does not stop at the first match.
edit_phone_every_match(rec, old_phone, new_phone) ==
    IF FirstIndex(rec.phones, old_phone) = 0
    THEN Left(Raise("ValueError", "NotFound"), rec)
    ELSE IF Phone(new_phone).status # "ok" THEN Left(Phone(new_phone), rec)
    ELSE Left(Ok(new_phone),
              [rec EXCEPT !.phones =
                  [i \in 1..Len(@) |-> IF @[i] = old_phone THEN new_phone ELSE @[i]]])

edit_phone(rec, old_phone, new_phone) ==
    EditedAt(rec, FirstIndex(rec.phones, old_phone), new_phone)

\* self.birthday = b, b being what Birthday(birthday) gave.
Assigned(rec, b) ==
    IF b.status # "ok" THEN Left(b, rec)
    ELSE Left(b, [rec EXCEPT !.birthday = b.value])

add_birthday(rec, birthday) == Assigned(rec, Birthday(birthday))

(***************************************************************************)
(* AddressBook: the dict's items, in insertion order.                      *)
(***************************************************************************)
Keys(b) == { b[i].key : i \in 1..Len(b) }

KeyIndex(b, name) ==
    IF name \in Keys(b) THEN CHOOSE i \in 1..Len(b) : b[i].key = name ELSE 0

\* self.data.get(name): <<record>>, or None.
Got(b, i) == IF i = 0 THEN None ELSE <<b[i].rec>>

find(b, name) == Got(b, KeyIndex(b, name))

\* self.data[key] = record: a present key keeps its place.
SetAt(b, i, key, rec) ==
    IF i = 0 THEN Append(b, [key |-> key, rec |-> rec])
    ELSE [b EXCEPT ![i].rec = rec]

SetItem(b, key, rec) == SetAt(b, KeyIndex(b, key), key, rec)

\* A variant of add_record that appends whether or not the name is present.
add_record_appends(b, rec) == Append(b, [key |-> rec.name, rec |-> rec])

add_record(b, rec) == SetItem(b, rec.name, rec)

DeletedAt(b, i) ==
    IF i # 0
    THEN [status |-> "ok", err |-> "",
          book |-> SubSeq(b, 1, i - 1) \o SubSeq(b, i + 1, Len(b))]
    ELSE [status |-> "KeyError", err |-> "NotFound", book |-> b]

delete(b, name) == DeletedAt(b, KeyIndex(b, name))

\* A method call on the record the book holds under name (the record is
\* shared with the book, so the book sees what the call did to it).
OnRecord(b, name, r) ==
    [status |-> r.status, err |-> r.err, book |-> SetItem(b, name, r.rec)]

(***************************************************************************)
(* get_upcoming_birthdays                                                  *)
(***************************************************************************)
\* date < date
date_lt(a, b) ==
    \/ a.year < b.year
    \/ a.year = b.year /\ a.month < b.month
    \/ a.year = b.year /\ a.month = b.month /\ a.day < b.day

date_le(a, b) == a = b \/ date_lt(a, b)

Saturday == 5

Sunday == 6

Lookahead == 7

\* A variant of WeekendShift that moves a Saturday one day on only.
WeekendShift_one_day(wd) ==
    IF wd = Saturday THEN 1 ELSE IF wd = Sunday THEN 1 ELSE 0

\* The days added to a congratulation date that falls on weekday wd.
WeekendShift(wd) ==
    IF wd = Saturday THEN 2 ELSE IF wd = Sunday THEN 1 ELSE 0

\* Line 90: the date of line 87, moved a year on when it is before today.
Advanced(first, today) ==
    IF first.status # "ok" THEN first
    ELSE IF date_lt(first.value, today)
         THEN replace_year(first.value, today.year + 1)
         ELSE first

birthday_this_year(birthday_date, today) ==
    Advanced(replace_year(birthday_date, today.year), today)

\* The entry appended for a record whose birthday_this_year is d.
Entry(name, d) ==
    [name |-> name,
     birthday |-> strftime(plus_days(d, WeekendShift(weekday(d))))]

\* The loop from record i on, upcoming being the list so far: an exception
\* leaves the loop, and the list with it.
RECURSIVE UpcomingFrom(_, _, _, _)
RECURSIVE WithBirthday(_, _, _, _, _)
RECURSIVE WithParsed(_, _, _, _, _)
WithBirthday(b, i, today, upcoming, bty) ==
    IF bty.status # "ok" THEN bty
    ELSE IF /\ date_le(today, bty.value)
            /\ date_le(bty.value, plus_days(today, Lookahead))
         THEN UpcomingFrom(b, i + 1, today,
                           Append(upcoming, Entry(b[i].rec.name, bty.value)))
         ELSE UpcomingFrom(b, i + 1, today, upcoming)

WithParsed(b, i, today, upcoming, parsed) ==
    IF parsed.status # "ok" THEN parsed
    ELSE WithBirthday(b, i, today, upcoming, birthday_this_year(parsed.value, today))

UpcomingFrom(b, i, today, upcoming) ==
    IF i > Len(b) THEN Ok(upcoming)
    ELSE IF b[i].rec.birthday = None THEN UpcomingFrom(b, i + 1, today, upcoming)
    ELSE WithParsed(b, i, today, upcoming, strptime(b[i].rec.birthday))

get_upcoming_birthdays(b, today) == UpcomingFrom(b, 1, today, <<>>)

(***************************************************************************)
(* Command handlers, as input_error leaves them: the exception a handler   *)
(* raises becomes its reply, and what the handler did before stays done.   *)
(***************************************************************************)
\* A variant of lines 129 to 133 that makes a new record for every add.
FoundOrCreated_always_creates(b, name, phone, found) ==
    OnRecord(add_record(b, Record(name)), name, add_phone(Record(name), phone))

\* Lines 129 to 133, found being what book.find(name) gave.
FoundOrCreated(b, name, phone, found) ==
    IF found = None
    THEN OnRecord(add_record(b, Record(name)), name, add_phone(Record(name), phone))
    ELSE OnRecord(b, name, add_phone(found[1], phone))

\* add_contact(command_parts, book) with len(command_parts) = n.
add_contact(b, n, name, phone) ==
    IF n < 3 THEN [status |-> "IndexError", err |-> "MissingArguments", book |-> b]
    ELSE IF n # 3 THEN [status |-> "ValueError", err |-> "Unpack", book |-> b]
    ELSE FoundOrCreated(b, name, phone, find(b, name))

\* birthdays(command_parts, book)
birthdays(b, today) == get_upcoming_birthdays(b, today)

(***************************************************************************)
(* Bounds and inputs                                                       *)
(***************************************************************************)
\* The most phones a record is given.
MaxPhones == 2

\* The longest raw phone string tried.
MaxLen == 11

Names == {"alice", "bob"}

P1 == <<"0", "1", "2", "3", "4", "5", "6", "7", "8", "9">>

P2 == <<"0", "9", "8", "7", "6", "5", "4", "3", "2", "1">>

PShort == <<"1", "2", "3", "4", "5">>

PhoneArgs == {P1, P2, PShort}

B1 == <<"1", "0", ".", "0", "3", ".", "1", "9", "9", "0">>

B2 == <<"0", "1", ".", "0", "1", ".", "2", "0", "0", "0">>

BNoSuchDay == <<"3", "1", ".", "0", "2", ".", "1", "9", "9", "0">>

BirthdayArgs == {B1, BNoSuchDay}

\* Records a caller built before handing them to add_record.
RecordArgs ==
    { Record(n) : n \in Names } \cup { add_phone(Record(n), P2).rec : n \in Names }

\* Raw phone strings: n sevens, and n sevens with one character replaced.
PhoneChars == {"0", "a", "-", " ", ArabicIndicThree, SuperscriptTwo}

Sevens(n) == [i \in 1..n |-> "7"]

PhoneStrings ==
    { Sevens(n) : n \in 0..MaxLen }
      \cup UNION { { [Sevens(n) EXCEPT ![i] = c] : i \in 1..n, c \in PhoneChars }
                   : n \in 1..MaxLen }
      \cup { [i \in 1..10 |-> ArabicIndicThree], [i \in 1..10 |-> SuperscriptTwo] }

\* Raw birthday strings: day, separator, month, separator, year.
DayTokens ==
    { <<"0", "1">>, <<"1">>, <<"1", "0">>, <<"2", "9">>, <<"3", "0">>, <<"3", "1">>,
      <<"3", "2">>, <<"0", "0">>, <<" ", "1">>, <<"1", ArabicIndicThree>>,
      <<SuperscriptTwo, "1">> }

MonthTokens ==
    { <<"0", "1">>, <<"1">>, <<"0", "2">>, <<"2">>, <<"0", "4">>, <<"1", "2">>,
      <<"1", "3">>, <<"0", "0">> }

YearTokens ==
    { <<"2", "0", "2", "4">>, <<"2", "0", "2", "5">>, <<"1", "9", "0", "0">>,
      <<"2", "0", "0", "0">>, <<"2", "5">>, <<"0", "0", "0", "0">>,
      <<"2", "0", "2", "5", "5">> }

Separators == {".", "-"}

BirthdayStrings ==
    { d \o <<s>> \o m \o <<s>> \o y :
        d \in DayTokens, m \in MonthTokens, y \in YearTokens, s \in Separators }

\* Birthdays of the book the query runs on.
B0803 == <<"0", "8", ".", "0", "3", ".", "1", "9", "8", "5">>

B0903 == <<"0", "9", ".", "0", "3", ".", "1", "9", "9", "9">>

BLeapDay == <<"2", "9", ".", "0", "2", ".", "2", "0", "2", "4">>

BOneDigit == <<"1", ".", "3", ".", "2", "0", "2", "5">>

UpcomingBirthdays == {B1, B2, B0803, B0903, BLeapDay, BOneDigit}

\* The days the query is run on: 20.02 to 12.03 of 2025, and the turns of
\* 2024 (a leap year) and 2025.
Todays ==
    { plus_days(Date(2025, 2, 20), k) : k \in 0..20 }
      \cup { Date(2024, 2, 25), Date(2024, 2, 29), Date(2024, 3, 1),
             Date(2024, 12, 28), Date(2025, 12, 20), Date(2025, 12, 24),
             Date(2025, 12, 25), Date(2025, 12, 28) }

(***************************************************************************)
(* State: the book, the last call with what it answered, and (for the add  *)
(* command) the phones each name was successfully given.                   *)
(***************************************************************************)
Did(op, name, a1, a2, today, status, err, out) ==
    [op |-> op, name |-> name, a1 |-> a1, a2 |-> a2, today |-> today,
     status |-> status, err |-> err, out |-> out]

NothingAdded == [n \in Names |-> <<>>]

Init ==
    /\ book = <<>>
    /\ last = Did("init", "", <<>>, <<>>, NoDate, "ok", "", <<>>)
    /\ added = NothingAdded

\* A book holding one fresh record.
InitOne ==
    /\ book = add_record(<<>>, Record("alice"))
    /\ last = Did("init", "", <<>>, <<>>, NoDate, "ok", "", <<>>)
    /\ added = NothingAdded

RecordOf(b, name) == find(b, name)[1]

Room(name) == name \in Keys(book) => Len(RecordOf(book, name).phones) < MaxPhones

\* What a call leaves: the book as the call left it, and its answer.
Answer(op, name, a1, a2, r) ==
    /\ book' = r.book
    /\ last' = Did(op, name, a1, a2, NoDate, r.status, r.err, <<>>)

AddRecordFrom(records) ==
    \E r \in records :
        /\ book' = add_record(book, r)
        /\ last' = Did("add_record", r.name, <<>>, <<>>, NoDate, "ok", "", <<r>>)
        /\ UNCHANGED added

Delete ==
    \E n \in Names :
        /\ Answer("delete", n, <<>>, <<>>, delete(book, n))
        /\ UNCHANGED added

Find ==
    \E n \in Names :
        /\ book' = book
        /\ last' = Did("find", n, <<>>, <<>>, NoDate, "ok", "", find(book, n))
        /\ UNCHANGED added

AddPhoneFrom(phones) ==
    \E n \in Keys(book), p \in phones :
        /\ Room(n)
        /\ Answer("add_phone", n, p, <<>>,
                  OnRecord(book, n, add_phone(RecordOf(book, n), p)))
        /\ UNCHANGED added

\* The first phone a record is given.
FirstPhoneFrom(phones) ==
    /\ \A i \in 1..Len(book) : book[i].rec.phones = <<>>
    /\ AddPhoneFrom(phones)

RemovePhone ==
    \E n \in Keys(book), p \in PhoneArgs :
        /\ Answer("remove_phone", n, p, <<>>,
                  OnRecord(book, n, remove_phone(RecordOf(book, n), p)))
        /\ UNCHANGED added

EditPhone ==
    \E n \in Keys(book), old \in PhoneArgs, new \in PhoneArgs :
        /\ Answer("edit_phone", n, old, new,
                  OnRecord(book, n, edit_phone(RecordOf(book, n), old, new)))
        /\ UNCHANGED added

AddBirthdayFrom(dates) ==
    \E n \in Keys(book), d \in dates :
        /\ Answer("add_birthday", n, d, <<>>,
                  OnRecord(book, n, add_birthday(RecordOf(book, n), d)))
        /\ UNCHANGED added

\* The first birthday a record is given.
FirstBirthdayFrom(dates) ==
    /\ \A i \in 1..Len(book) : book[i].rec.birthday = None
    /\ AddBirthdayFrom(dates)

\* The add command with k words: k = 3 is "add <name> <phone>".
AddContact ==
    \E k \in 2..4, n \in Names, p \in PhoneArgs :
        /\ k # 3 => n = "alice" /\ p = P1
        /\ Room(n)
        /\ Answer("add", n, p, <<>>, add_contact(book, k, n, p))
        /\ UNCHANGED added

\* The add command, with the phones it added written down.
Logged(n, p, r) ==
    added' = IF r.status = "ok" THEN [added EXCEPT ![n] = Append(@, p)] ELSE added

AddContactLogged ==
    \E k \in 2..4, n \in Names, p \in PhoneArgs :
        /\ k # 3 => n = "alice" /\ p = P1
        /\ Room(n)
        /\ Answer("add", n, p, <<>>, add_contact(book, k, n, p))
        /\ Logged(n, p, add_contact(book, k, n, p))

Queried(today, r) ==
    /\ book' = book
    /\ last' = Did("birthdays", "", <<>>, <<>>, today, r.status, r.err, r.value)

Birthdays ==
    \E today \in Todays :
        /\ Queried(today, birthdays(book, today))
        /\ UNCHANGED added

\* The Record operations, on the records of a book.
NextRecord ==
    \/ AddRecordFrom({ Record(n) : n \in Names })
    \/ Delete
    \/ AddPhoneFrom(PhoneArgs)
    \/ RemovePhone
    \/ EditPhone
    \/ AddBirthdayFrom(BirthdayArgs)

SpecRecord == Init /\ [][NextRecord]_vars

\* The AddressBook operations and the add command.
NextBook ==
    \/ AddRecordFrom(RecordArgs)
    \/ Delete
    \/ Find
    \/ AddContact

SpecBook == Init /\ [][NextBook]_vars

\* The add command alone, on records that may have a birthday.
NextAdd ==
    \/ AddContactLogged
    \/ AddBirthdayFrom(BirthdayArgs)

SpecAdd == Init /\ [][NextAdd]_vars

\* The query, on books of records with birthdays.
NextUpcoming ==
    \/ AddRecordFrom({ Record(n) : n \in Names })
    \/ AddBirthdayFrom(UpcomingBirthdays)
    \/ Birthdays

SpecUpcoming == Init /\ [][NextUpcoming]_vars

\* Phone construction, on every raw string of PhoneStrings.
NextPhone == FirstPhoneFrom(PhoneStrings)

SpecPhone == InitOne /\ [][NextPhone]_vars

\* Birthday construction, on every raw string of BirthdayStrings.
NextBirthday == FirstBirthdayFrom(BirthdayStrings)

SpecBirthday == InitOne /\ [][NextBirthday]_vars

(***************************************************************************)
(* Properties                                                              *)
(***************************************************************************)
Names_of(entries) == [k \in 1..Len(entries) |-> entries[k].name]

\* The month and day of a stored birthday, put in year y: a date, or none.
InYear(raw, y) == replace_year(strptime(raw).value, y)

\* The next occurrence of a birthday as the specification defines it: its
\* month and day in today's year, a year later when that is before today.
\* <<date>>, or <<>> where the month and day name no date of that year.
Occurrence(raw, today) ==
    IF InYear(raw, today.year).status # "ok" THEN <<>>
    ELSE IF toordinal(InYear(raw, today.year).value) >= toordinal(today)
         THEN <<InYear(raw, today.year).value>>
         ELSE IF InYear(raw, today.year + 1).status # "ok" THEN <<>>
              ELSE <<InYear(raw, today.year + 1).value>>

\* The record's birthday occurs within [today, today + 7 days].
InWindow(rec, today) ==
    /\ rec.birthday # None
    /\ Occurrence(rec.birthday, today) # <<>>
    /\ toordinal(Occurrence(rec.birthday, today)[1]) - toordinal(today) \in 0..Lookahead

\* The date a DD.MM.YYYY text names.
DateOfText(s) == Date(int(SubSeq(s, 7, Len(s))), int(SubSeq(s, 4, 5)), int(SubSeq(s, 1, 2)))

Queried_ok == last.op = "birthdays" /\ last.status = "ok"

\* C1: after upcomingBirthdays, a record with a birthday appears in the
\* result if and only if its next occurrence (month/day in the reference
\* year, a year later when strictly before the reference date) lies within
\* [referenceDate, referenceDate + 7 days]; a record without a birthday
\* never appears.
C1_Inclusion ==
    last.op = "birthdays" =>
        \A i \in 1..Len(book) :
            (\E k \in 1..Len(last.out) : last.out[k].name = book[i].rec.name)
                <=> InWindow(book[i].rec, last.today)

\* C1 where the query completed: the inclusion rule itself.
C1_InclusionWhenCompleted ==
    Queried_ok =>
        \A i \in 1..Len(book) :
            (\E k \in 1..Len(last.out) : last.out[k].name = book[i].rec.name)
                <=> InWindow(book[i].rec, last.today)

\* The congratulation date the specification gives an in-window date d.
Shifted(d) ==
    IF weekday(d) = 5 THEN toordinal(d) + 2
    ELSE IF weekday(d) = 6 THEN toordinal(d) + 1 ELSE toordinal(d)

\* C2: every emitted congratulation date is the record's in-window birthday
\* date plus 2 days when that is a Saturday, plus 1 day when a Sunday, plus
\* 0 otherwise; it is never a Saturday or Sunday, and lies within
\* [referenceDate, referenceDate + 9 days].
C2_WeekendShift ==
    Queried_ok =>
        \A k \in 1..Len(last.out) :
            /\ Len(last.out[k].birthday) = 10
            /\ \E i \in 1..Len(book) :
                  /\ book[i].rec.name = last.out[k].name
                  /\ InWindow(book[i].rec, last.today)
                  /\ toordinal(DateOfText(last.out[k].birthday))
                        = Shifted(Occurrence(book[i].rec.birthday, last.today)[1])
            /\ weekday(DateOfText(last.out[k].birthday)) \notin {5, 6}
            /\ toordinal(DateOfText(last.out[k].birthday)) - toordinal(last.today) \in 0..9

\* C2's case: a birthday on the Saturday seven days ahead, congratulated on
\* the Monday nine days ahead.
C2_Witness ==
    /\ Queried_ok
    /\ \E k \in 1..Len(last.out) :
          toordinal(DateOfText(last.out[k].birthday)) = toordinal(last.today) + 9

\* Exactly 10 characters, each an ASCII digit.
TenAsciiDigits(s) == Len(s) = 10 /\ \A i \in 1..10 : s[i] \in AsciiDigits

\* C3: Phone construction succeeds if and only if the raw string is exactly
\* 10 ASCII digits; otherwise it fails with InvalidPhone and stores no
\* phone; on success the stored value is the raw string.
C3_PhoneValidation ==
    last.op = "add_phone" =>
        /\ last.status = "ok" <=> TenAsciiDigits(last.a1)
        /\ last.status = "ok" => RecordOf(book, last.name).phones = <<last.a1>>
        /\ last.status # "ok" =>
              /\ last.err = "InvalidPhone"
              /\ RecordOf(book, last.name).phones = <<>>

\* C3 on the raw strings of ASCII characters alone.
C3_PhoneValidationAscii ==
    (last.op = "add_phone" /\ \A i \in 1..Len(last.a1) :
                                last.a1[i] \notin {ArabicIndicThree, SuperscriptTwo}) =>
        /\ last.status = "ok" <=> TenAsciiDigits(last.a1)
        /\ last.status = "ok" => RecordOf(book, last.name).phones = <<last.a1>>
        /\ last.status # "ok" =>
              /\ last.err = "InvalidPhone"
              /\ RecordOf(book, last.name).phones = <<>>

\* DD.MM.YYYY, two, two and four ASCII digits, naming a date of the calendar.
IsCalendarDate(d) ==
    /\ d.year >= 1
    /\ d.month \in 1..12
    /\ d.day \in 1..DaysInMonth(d.year, d.month)

IsDDMMYYYY(s) ==
    /\ Len(s) = 10
    /\ s[3] = "." /\ s[6] = "."
    /\ \A i \in {1, 2, 4, 5, 7, 8, 9, 10} : s[i] \in AsciiDigits
    /\ IsCalendarDate(DateOfText(s))

\* C4: Birthday construction succeeds if and only if the raw string is
\* exactly DD.MM.YYYY and names a valid calendar date; every other string
\* (a one-digit day or month among them) fails with InvalidDate; on success
\* the stored value is the raw string.
C4_BirthdayValidation ==
    last.op = "add_birthday" =>
        /\ last.status = "ok" <=> IsDDMMYYYY(last.a1)
        /\ last.status = "ok" => RecordOf(book, last.name).birthday = last.a1
        /\ last.status # "ok" =>
              /\ last.err = "InvalidDate"
              /\ RecordOf(book, last.name).birthday = None

\* C4 on the raw strings of ten characters alone.
C4_BirthdayValidationTen ==
    (last.op = "add_birthday" /\ Len(last.a1) = 10 /\ last.a1[1] # " "
        /\ \A i \in 1..10 : last.a1[i] # ArabicIndicThree) =>
        /\ last.status = "ok" <=> IsDDMMYYYY(last.a1)
        /\ last.status = "ok" => RecordOf(book, last.name).birthday = last.a1

CoreOps == {"add_phone", "remove_phone", "edit_phone", "add_birthday", "delete"}

\* C5: a failing addPhone, removePhone, editPhone, addBirthday or delete
\* leaves every record's phones and birthday and the book's entries as they
\* were before the call.
C5_FailureLeavesState ==
    [][ (last'.op \in CoreOps /\ last'.status # "ok") => book' = book ]_vars

\* C5's case: editPhone of a phone the record holds, to an invalid one.
C5_Witness ==
    /\ last.op = "edit_phone"
    /\ last.err = "InvalidPhone"
    /\ \E i \in 1..Len(RecordOf(book, last.name).phones) :
          RecordOf(book, last.name).phones[i] = last.a1

KeyInvariant ==
    /\ \A i \in 1..Len(book) : book[i].key = book[i].rec.name
    /\ \A i, j \in 1..Len(book) : book[i].key = book[j].key => i = j

C6_Step ==
    /\ last'.op = "add_record" =>
          /\ \E i \in 1..Len(book') :
                book'[i].key = last'.name /\ <<book'[i].rec>> = last'.out
          /\ (\E i \in 1..Len(book) : book[i].key = last'.name)
                => Len(book') = Len(book)
    /\ (last.op = "add_record" /\ last'.op = "find" /\ last'.name = last.name)
          => last'.out = last.out
    /\ (last'.op = "find" /\ \A i \in 1..Len(book) : book[i].key # last'.name)
          => last'.out = None
    /\ (last'.op = "delete" /\ last'.status = "ok")
          => \A i \in 1..Len(book') : book'[i].key # last'.name

\* C6: every entry of the book is stored under its record's own name and no
\* two entries share a name; addRecord(r) then find(r.name) returns r;
\* addRecord of a present name replaces the record without adding an entry;
\* find of a name that was never added or was deleted returns absent.
C6_KeyInvariant == []KeyInvariant /\ [][C6_Step]_vars

\* C6's case: addRecord replaced the record of a name the book already held
\* (the name sits before a later entry).
C6_Witness ==
    /\ last.op = "add_record"
    /\ Len(book) = 2
    /\ book[1].key = last.name
    /\ <<book[1].rec>> = last.out

\* C7: a successful editPhone(old, new) puts new at the index of the first
\* phone equal to old; the sequence keeps its length and every other
\* position, the record its name and birthday, the book its other entries.
C7_EditInPlace ==
    [][ (last'.op = "edit_phone" /\ last'.status = "ok") =>
          /\ Len(book') = Len(book)
          /\ \A k \in 1..Len(book) :
                /\ book'[k].key = book[k].key
                /\ book'[k].rec.name = book[k].rec.name
                /\ book'[k].rec.birthday = book[k].rec.birthday
                /\ book[k].key # last'.name => book'[k] = book[k]
                /\ book[k].key = last'.name =>
                      \E i \in 1..Len(book[k].rec.phones) :
                          /\ book[k].rec.phones[i] = last'.a1
                          /\ \A j \in 1..(i - 1) : book[k].rec.phones[j] # last'.a1
                          /\ book'[k].rec.phones
                                = [book[k].rec.phones EXCEPT ![i] = last'.a2]
      ]_vars

\* C7's case: an edit that left a later duplicate of old in place.
C7_Witness ==
    /\ last.op = "edit_phone"
    /\ last.status = "ok"
    /\ last.a1 # last.a2
    /\ \E i \in 1..Len(RecordOf(book, last.name).phones) :
          RecordOf(book, last.name).phones[i] = last.a1

AddedInvariant ==
    /\ KeyInvariant
    /\ \A n \in Names : added[n] # <<>> => \E i \in 1..Len(book) : book[i].key = n
    /\ \A i \in 1..Len(book) : book[i].rec.phones = added[book[i].key]

C8_Step ==
    (last'.op = "add" /\ \E i \in 1..Len(book) : book[i].key = last'.name) =>
        /\ Len(book') = Len(book)
        /\ \A k \in 1..Len(book) :
              /\ book'[k].key = book[k].key
              /\ book'[k].rec.birthday = book[k].rec.birthday
              /\ SubSeq(book'[k].rec.phones, 1, Len(book[k].rec.phones))
                    = book[k].rec.phones

\* C8: after any sequence of add commands the book holds one record per
\* name, whose phones are exactly the phones successfully added under that
\* name, in order, duplicates kept; an add for a present name keeps the
\* record's earlier phones and its birthday.
C8_AddAccumulates == []AddedInvariant /\ [][C8_Step]_vars

\* C8's case: the same phone added twice to a record that has a birthday.
C8_Witness ==
    \E i \in 1..Len(book) :
        /\ Len(added[book[i].key]) = 2
        /\ added[book[i].key][1] = added[book[i].key][2]
        /\ book[i].rec.birthday # None

\* C9: an add command for a name not in the book, with a phone that fails
\* validation, leaves the book as it was: no entry for that name.
C9_FailedAddLeavesBook ==
    [][ (/\ last'.op = "add"
         /\ last'.err = "InvalidPhone"
         /\ \A i \in 1..Len(book) : book[i].key # last'.name) =>
          /\ \A i \in 1..Len(book') : book'[i].key # last'.name
          /\ book' = book
      ]_vars

\* The names of the records of b from index i on whose birthday is in the
\* window, in the book's order.
RECURSIVE Qualifying(_, _, _)
Qualifying(b, i, today) ==
    IF i > Len(b) THEN <<>>
    ELSE IF InWindow(b[i].rec, today)
         THEN <<b[i].rec.name>> \o Qualifying(b, i + 1, today)
         ELSE Qualifying(b, i + 1, today)

\* C10: upcomingBirthdays completes, whatever the birthdays of the book
\* (29.02 among them) and the reference date, and emits exactly one entry
\* per record whose birthday is in the window, in the book's order.
C10_QueryCompletes ==
    last.op = "birthdays" =>
        /\ last.status = "ok"
        /\ Names_of(last.out) = Qualifying(book, 1, last.today)

\* C10 where the query completed.
C10_EntriesWhenCompleted ==
    Queried_ok => Names_of(last.out) = Qualifying(book, 1, last.today)

====
